---- MODULE Spec2Model ----
(***************************************************************************)
(* A model of getopt.c (getopt_port): the POSIX/GNU style option scanner   *)
(* getopt() and getopt_long(), their file-scope scan state and the         *)
(* argv-permuting rotate() helper.                                          *)
(*                                                                          *)
(* Representation.                                                          *)
(*   - A C string is a sequence of one-character strings; the terminating  *)
(*     '\0' is the value NUL, read at offset Len(s).                        *)
(*   - A `const char *` to an argv element is a record [id, s]: `id` is    *)
(*     the address (distinct elements have distinct ids, equal text or     *)
(*     not), `s` the text stored there.  Pointer comparison (argv[optind]  *)
(*     == first) is equality of these records; strcmp is equality of `s`.  *)
(*   - A pointer into an element (optcursor, optarg) is [p, off] with a    *)
(*     0-based offset as in C.                                              *)
(*   - argv is a function on 0..argc-1.                                     *)
(*   - A call whose rotation loop never exits leaves hung = TRUE: the call *)
(*     does not return and nothing happens afterwards.                      *)
(***************************************************************************)
EXTENDS Integers, Sequences, FiniteSets, TLC

\* ------------------------------------------------------------------------
\* Bounds of the model
\* ------------------------------------------------------------------------
\* largest argc of the sequence given to the first pass
MaxArgc == 4

\* largest argc of a sequence handed in for a later pass
MaxArgc2 == 2

\* number of passes (the first one included) the caller starts
MaxPasses == 2

\* ------------------------------------------------------------------------
\* Values
\* ------------------------------------------------------------------------
\* '\0', also the integer 0 returned for flag-style long options
NUL == "NUL"

\* the return value -1
EOF == "EOF"

\* no return value (call in progress / never returned)
NORET == "NORET"

\* the null pointer to a string
NULL == [id |-> 0, s |-> <<>>]

\* the null pointer into a string (optcursor, optarg)
NullCur == [p |-> NULL, off |-> 0]

\* *(p + k)
CharAt(p, k) == IF k >= 0 /\ k < Len(p.s) THEN p.s[k + 1] ELSE NUL

\* the C string starting at a pointer into an element
StrAt(c) == SubSeq(c.p.s, c.off + 1, Len(c.p.s))

\* optstring[k]
OptCh(optstring, k) == IF k >= 0 /\ k < Len(optstring) THEN optstring[k + 1] ELSE NUL

Argc(a) == Cardinality(DOMAIN a)

Min(a, b) == IF a < b THEN a ELSE b

\* ------------------------------------------------------------------------
\* libc helpers
\* ------------------------------------------------------------------------
\* strchr(str, c): offset of the first occurrence of c, -1 for NULL.
\* strchr finds the terminator when c is '\0'.
strchr(str, c) ==
  IF c = NUL THEN Len(str)
  ELSE IF \E k \in 1..Len(str) : str[k] = c
       THEN (CHOOSE k \in 1..Len(str) : str[k] = c /\ \A j \in 1..(k - 1) : str[j] # c) - 1
       ELSE -1

\* strncmp(a, b, n) == 0
strncmp0(a, b, n) == SubSeq(a, 1, Min(n, Len(a))) = SubSeq(b, 1, Min(n, Len(b)))

\* strcspn(str, "=")
strcspn(str) == IF strchr(str, "=") < 0 THEN Len(str) ELSE strchr(str, "=")

\* ------------------------------------------------------------------------
\* rotate(argv + base, cnt): rotate the window argv[base .. base+cnt-1]
\* left by one
\* ------------------------------------------------------------------------
rotate_dup(a, base, cnt) ==
  IF cnt <= 1 THEN a
  ELSE [i \in DOMAIN a |->
          IF i < base \/ i >= base + cnt - 1 THEN a[i] ELSE a[i + 1]]

rotate_low(a, base, cnt) ==
  IF cnt <= 1 THEN a
  ELSE [i \in DOMAIN a |->
          IF i < 1 \/ i >= base + cnt THEN a[i]
          ELSE IF i = base + cnt - 1 THEN a[1]
          ELSE a[i + 1]]

rotate(a, base, cnt) ==
  IF cnt <= 1 THEN a
  ELSE [i \in DOMAIN a |->
          IF i < base \/ i >= base + cnt THEN a[i]
          ELSE IF i = base + cnt - 1 THEN a[base]
          ELSE a[i + 1]]

\* argv[i], where argv[argc] is whatever follows the array (`past`)
Elem(a, i, past) == IF i \in DOMAIN a THEN a[i] ELSE past

\* do { rotate(argv + optind, argc - optind); }
\* while (*argv[optind] != '-' && argv[optind] != first);
\* A window of n elements is back in its starting order after n rotations,
\* and the loop condition depends on the window only: a loop that has not
\* exited after n rotations never exits.
RECURSIVE PermuteLoop_text(_, _, _, _)
PermuteLoop_text(a, oi, fst, fuel) ==
  LET b == rotate(a, oi, Argc(a) - oi)
  IN IF CharAt(b[oi], 0) # "-" /\ b[oi].s # fst.s
     THEN IF fuel <= 1 THEN [hung |-> TRUE, argv |-> a]
          ELSE PermuteLoop_text(b, oi, fst, fuel - 1)
     ELSE [hung |-> FALSE, argv |-> b]

RECURSIVE PermuteLoop(_, _, _, _)
PermuteLoop(a, oi, fst, fuel) ==
  LET b == rotate(a, oi, Argc(a) - oi)
  IN IF CharAt(b[oi], 0) # "-" /\ b[oi] # fst
     THEN IF fuel <= 1 THEN [hung |-> TRUE, argv |-> a]
          ELSE PermuteLoop(b, oi, fst, fuel - 1)
     ELSE [hung |-> FALSE, argv |-> b]

\* do { rotate(argv + optind, argc - optind); } while (argv[optind] != first);
\* after "--"; optind may equal argc here, and then argv[optind] is read
\* one past the last element.
RECURSIVE AnchorLoop(_, _, _, _, _)
AnchorLoop(a, oi, fst, past, fuel) ==
  LET b == rotate(a, oi, Argc(a) - oi)
  IN IF Elem(b, oi, past) # fst
     THEN IF fuel <= 1 THEN [hung |-> TRUE, argv |-> a]
          ELSE AnchorLoop(b, oi, fst, past, fuel - 1)
     ELSE [hung |-> FALSE, argv |-> b]

\* ------------------------------------------------------------------------
\* getopt()
\* ------------------------------------------------------------------------
\* The state a call works on is a record s with the fields
\*   argv, optind, optarg, optopt, opterr, optcursor, first   (the C objects)
\*   ret    the value returned by the call (NORET while it has not returned)
\*   hung   the call is caught in a rotation loop for ever
\*   diag   the lines written to stderr by the call
\*   err    the error branch the call went through ("none" if none)
\*   term   the branch on which the call reported "no more options"
\*          ("none" if it did not)
\*   used   the elements the pass has taken as options, as option values or
\*          as the "--" terminator
\*   longindex, flagvar   the caller's *longindex and *flag objects
\*   match  the position in the table of the descriptor a long option was
\*          resolved to (0 if none was)
\*   given  a long option was processed with longindex != NULL

\* label no_more_optchars of getopt
no_more_optchars(s) ==
  [s EXCEPT !.optcursor = NullCur, !.first = NULL, !.ret = EOF]

\* label no_more_optchars of getopt_long
no_more_optchars_long(s) == [s EXCEPT !.first = NULL, !.ret = EOF]

\* goto no_more_optchars from the branch named why, in getopt_long when
\* long is TRUE and in getopt otherwise
GotoNoMore(s, why, long) ==
  IF long THEN no_more_optchars_long([s EXCEPT !.term = why])
  ELSE no_more_optchars([s EXCEPT !.term = why])

\* line 116: optcursor == NULL || *optcursor == '\0', no option cluster is
\* being scanned
NoCursor(c) == c.p = NULL \/ CharAt(c.p, c.off) = NUL

\* the statements every call starts with
Prologue(s) ==
  [s EXCEPT !.optarg = NullCur, !.opterr = 0, !.optopt = NUL,
            !.optind = IF s.optind <= 1 THEN 1 ELSE s.optind,
            !.ret = NORET, !.diag = <<>>, !.err = "none", !.term = "none",
            !.match = 0, !.given = FALSE]

\* lines 132-168: the option character optchar, found at optstring[optdecl],
\* is declared with ':'; c0 is the cursor on optchar
OptionArgument_qmark(s, c0, optchar, optdecl, optstring) ==
  LET argc == Argc(s.argv)
      c1 == [c0 EXCEPT !.off = @ + 1]
  IN IF CharAt(c1.p, c1.off) = NUL
     THEN IF OptCh(optstring, optdecl + 2) # ":"
          THEN IF s.optind + 1 < argc
               THEN [s EXCEPT !.optind = @ + 1,
                              !.optarg = [p |-> s.argv[s.optind + 1], off |-> 0],
                              !.used = @ \cup {s.argv[s.optind + 1]},
                              !.optcursor = NullCur,
                              !.ret = optchar]
               ELSE [s EXCEPT !.optind = @ + 1,
                              !.optarg = NullCur,
                              !.diag = IF s.opterr # 0
                                       THEN Append(@, <<"option requires an argument", optchar>>)
                                       ELSE @,
                              !.err = "missing",
                              !.optcursor = NullCur,
                              !.ret = "?"]
          ELSE [s EXCEPT !.optarg = NullCur, !.optcursor = NullCur, !.ret = optchar]
     ELSE [s EXCEPT !.optarg = c1, !.optcursor = NullCur, !.ret = optchar]

OptionArgument_keep(s, c0, optchar, optdecl, optstring) ==
  LET argc == Argc(s.argv)
      c1 == [c0 EXCEPT !.off = @ + 1]
  IN IF CharAt(c1.p, c1.off) = NUL
     THEN IF OptCh(optstring, optdecl + 2) # ":"
          THEN IF s.optind + 1 < argc
               THEN [s EXCEPT !.optind = @ + 1,
                              !.optarg = [p |-> s.argv[s.optind + 1], off |-> 0],
                              !.used = @ \cup {s.argv[s.optind + 1]},
                              !.optcursor = NullCur,
                              !.ret = optchar]
               ELSE [s EXCEPT !.optind = @ + 1,
                              !.optarg = NullCur,
                              !.diag = IF s.opterr # 0
                                       THEN Append(@, <<"option requires an argument", optchar>>)
                                       ELSE @,
                              !.err = "missing",
                              !.optcursor = NullCur,
                              !.ret = IF OptCh(optstring, 0) = ":" THEN ":" ELSE "?"]
          ELSE [s EXCEPT !.optarg = NullCur, !.optcursor = NullCur, !.ret = optchar]
     ELSE [s EXCEPT !.optarg = c1, !.ret = optchar]

OptionArgument(s, c0, optchar, optdecl, optstring) ==
  LET argc == Argc(s.argv)
      c1 == [c0 EXCEPT !.off = @ + 1]
  IN IF CharAt(c1.p, c1.off) = NUL
     THEN IF OptCh(optstring, optdecl + 2) # ":"
          THEN IF s.optind + 1 < argc
               THEN [s EXCEPT !.optind = @ + 1,
                              !.optarg = [p |-> s.argv[s.optind + 1], off |-> 0],
                              !.used = @ \cup {s.argv[s.optind + 1]},
                              !.optcursor = NullCur,
                              !.ret = optchar]
               ELSE [s EXCEPT !.optind = @ + 1,
                              !.optarg = NullCur,
                              !.diag = IF s.opterr # 0
                                       THEN Append(@, <<"option requires an argument", optchar>>)
                                       ELSE @,
                              !.err = "missing",
                              !.optcursor = NullCur,
                              !.ret = IF OptCh(optstring, 0) = ":" THEN ":" ELSE "?"]
          ELSE [s EXCEPT !.optarg = NullCur, !.optcursor = NullCur, !.ret = optchar]
     ELSE [s EXCEPT !.optarg = c1, !.optcursor = NullCur, !.ret = optchar]

NextPosition_skip(s) ==
  LET c2 == [s.optcursor EXCEPT !.off = @ + 1]
  IN IF s.optcursor.p = NULL \/ s.err = "invalid"
     THEN [s EXCEPT !.optcursor = NullCur, !.optind = @ + 1]
     ELSE IF CharAt(c2.p, c2.off) = NUL
          THEN [s EXCEPT !.optcursor = c2, !.optind = @ + 1]
          ELSE [s EXCEPT !.optcursor = c2]

\* lines 177-178: if (optcursor == NULL || *++optcursor == '\0') ++optind;
NextPosition(s) ==
  LET c2 == [s.optcursor EXCEPT !.off = @ + 1]
  IN IF s.optcursor.p = NULL
     THEN [s EXCEPT !.optind = @ + 1]
     ELSE IF CharAt(c2.p, c2.off) = NUL
          THEN [s EXCEPT !.optcursor = c2, !.optind = @ + 1]
          ELSE [s EXCEPT !.optcursor = c2]

\* lines 116-180: one option character of the element at optind
ScanChar(s, optstring) ==
  LET cur == s.argv[s.optind]
      c0 == IF NoCursor(s.optcursor)
            THEN [p |-> cur, off |-> 1]
            ELSE s.optcursor
      optchar == CharAt(c0.p, c0.off)
      optdecl == strchr(optstring, optchar)
      s1 == [s EXCEPT !.optcursor = c0, !.optopt = optchar, !.used = @ \cup {cur}]
      \* the branches of  if (optdecl) ... else ...
      s2 ==
        IF optdecl >= 0
        THEN IF OptCh(optstring, optdecl + 1) = ":"
             THEN OptionArgument(s1, c0, optchar, optdecl, optstring)
             ELSE [s1 EXCEPT !.ret = optchar]
        ELSE [s1 EXCEPT !.diag = IF s1.opterr # 0
                                 THEN Append(@, <<"invalid option", optchar>>)
                                 ELSE @,
                        !.err = "invalid",
                        !.ret = "?"]
  IN NextPosition(s2)

\* lines 99-180: "-", "--" and the option characters
ScanElement_dash(s, optstring, past) ==
  LET argc == Argc(s.argv)
      cur == s.argv[s.optind]
  IN IF cur.s = <<"-">> \/ cur.s = <<"-", "-">>
     THEN LET s1 == [s EXCEPT !.optind = @ + 1, !.used = @ \cup {cur}]
              n == argc - s1.optind
              p == AnchorLoop(s1.argv, s1.optind, s1.first, past, IF n < 1 THEN 1 ELSE n)
              why == IF cur.s = <<"-">> THEN "dash" ELSE "dashdash"
          IN IF s1.first # NULL
             THEN IF p.hung THEN [s1 EXCEPT !.hung = TRUE]
                  ELSE GotoNoMore([s1 EXCEPT !.argv = p.argv], why, FALSE)
             ELSE GotoNoMore(s1, why, FALSE)
     ELSE ScanChar(s, optstring)

ScanElement(s, optstring, past) ==
  LET argc == Argc(s.argv)
      cur == s.argv[s.optind]
  IN IF cur.s = <<"-">> THEN GotoNoMore(s, "dash", FALSE)
     ELSE IF cur.s = <<"-", "-">>
          THEN LET s1 == [s EXCEPT !.optind = @ + 1, !.used = @ \cup {cur}]
                   n == argc - s1.optind
                   p == AnchorLoop(s1.argv, s1.optind, s1.first, past, IF n < 1 THEN 1 ELSE n)
               IN IF s1.first # NULL
                  THEN IF p.hung THEN [s1 EXCEPT !.hung = TRUE]
                       ELSE GotoNoMore([s1 EXCEPT !.argv = p.argv], "dashdash", FALSE)
                  ELSE GotoNoMore(s1, "dashdash", FALSE)
          ELSE ScanChar(s, optstring)

\* lines 84-97 (and 220-233 of getopt_long): move a non-option at optind
\* behind the rest.  The result has go = TRUE when the scan continues
\* with the element now at optind.
Permute(s, long) ==
  LET argc == Argc(s.argv)
      s1 == [s EXCEPT !.first = IF @ = NULL THEN s.argv[s.optind] ELSE @]
      p == PermuteLoop(s1.argv, s1.optind, s1.first, argc - s1.optind)
      s2 == [s1 EXCEPT !.argv = p.argv]
  IN IF CharAt(s.argv[s.optind], 0) # "-"
     THEN IF argc - s.optind <= 1 THEN [go |-> FALSE, s |-> GotoNoMore(s, "single", long)]
          ELSE IF p.hung THEN [go |-> FALSE, s |-> [s1 EXCEPT !.hung = TRUE]]
          ELSE IF s2.argv[s2.optind] = s2.first THEN [go |-> FALSE, s |-> GotoNoMore(s2, "cycle", long)]
          ELSE [go |-> TRUE, s |-> s2]
     ELSE [go |-> TRUE, s |-> s]

getopt(s, optstring, past) ==
  LET argc == Argc(s.argv)
      s1 == Prologue(s)
      pm == Permute(s1, FALSE)
  IN IF s1.optind >= argc THEN GotoNoMore(s1, "end", FALSE)
     ELSE IF s1.argv[s1.optind] = NULL THEN GotoNoMore(s1, "null", FALSE)
     ELSE IF pm.go THEN ScanElement(pm.s, optstring, past)
     ELSE pm.s

\* ------------------------------------------------------------------------
\* getopt_long()
\* ------------------------------------------------------------------------
\* the caller's table of struct option; flag tells whether .flag is non-NULL
\* (it then points to flagvar)
longopts ==
  << [name |-> <<"h", "e", "l", "p">>, has_arg |-> "no_argument", flag |-> FALSE, val |-> "h"],
     [name |-> <<"h", "e", "x">>, has_arg |-> "no_argument", flag |-> TRUE, val |-> "X"],
     [name |-> <<"o", "u", "t">>, has_arg |-> "required_argument", flag |-> FALSE, val |-> "o"],
     [name |-> <<"o", "p", "t">>, has_arg |-> "optional_argument", flag |-> TRUE, val |-> "p"],
     [name |-> <<"h", "e">>, has_arg |-> "no_argument", flag |-> FALSE, val |-> "e"] >>

\* lines 241-261: for (; o->name; ++o) ...; i is the 1-based position of o,
\* match is 0 for NULL
RECURSIVE MatchLoop_noexact(_, _, _, _, _, _)
MatchLoop_noexact(table, current_argument, argument_name_length, i, match, num_matches) ==
  IF i > Len(table) THEN [match |-> match, num_matches |-> num_matches]
  ELSE IF strncmp0(table[i].name, current_argument, argument_name_length)
       THEN MatchLoop_noexact(table, current_argument, argument_name_length,
                              i + 1, i, num_matches + 1)
       ELSE MatchLoop_noexact(table, current_argument, argument_name_length,
                              i + 1, match, num_matches)

RECURSIVE MatchLoop_firstprefix(_, _, _, _, _, _)
MatchLoop_firstprefix(table, current_argument, argument_name_length, i, match, num_matches) ==
  IF i > Len(table) THEN [match |-> match, num_matches |-> num_matches]
  ELSE IF strncmp0(table[i].name, current_argument, argument_name_length)
       THEN [match |-> i, num_matches |-> 1]
       ELSE MatchLoop_firstprefix(table, current_argument, argument_name_length,
                                  i + 1, match, num_matches)

RECURSIVE MatchLoop(_, _, _, _, _, _)
MatchLoop(table, current_argument, argument_name_length, i, match, num_matches) ==
  IF i > Len(table) THEN [match |-> match, num_matches |-> num_matches]
  ELSE LET name == table[i].name
           option_length == Len(name)
       IN IF option_length = argument_name_length
             /\ strncmp0(name, current_argument, option_length)
          THEN [match |-> i, num_matches |-> 1]
          ELSE IF strncmp0(name, current_argument, argument_name_length)
               THEN IF Len(name) = argument_name_length
                    THEN [match |-> i, num_matches |-> 1]
                    ELSE MatchLoop(table, current_argument, argument_name_length,
                                   i + 1, i, num_matches + 1)
               ELSE MatchLoop(table, current_argument, argument_name_length,
                              i + 1, match, num_matches)

Resolved_val(s, o, i, haslongindex) ==
  [s EXCEPT !.longindex = IF haslongindex THEN i - 1 ELSE @,
            !.flagvar = IF o.flag THEN o.val ELSE @,
            !.ret = o.val]

\* lines 263-276: if (longindex) *longindex = match - longopts;
\* if (match->flag) *(match->flag) = match->val;
\* retval = match->flag ? 0 : match->val;   o is the i-th descriptor
Resolved(s, o, i, haslongindex) ==
  [s EXCEPT !.longindex = IF haslongindex THEN i - 1 ELSE @,
            !.flagvar = IF o.flag THEN o.val ELSE @,
            !.ret = IF o.flag THEN NUL ELSE o.val]

MalformedUsage_keep(s) == [s EXCEPT !.err = "malformed"]

\* lines 293-299: an argument was provided to a non-argument option
MalformedUsage(s) == [s EXCEPT !.err = "malformed", !.ret = "?"]

\* lines 238-313: the element at optind starts with "--" and is longer
LongOption(s, table, haslongindex) ==
  LET argc == Argc(s.argv)
      cur == s.argv[s.optind]
      current_argument == SubSeq(cur.s, 3, Len(cur.s))
      argument_name_length == strcspn(current_argument)
      m == MatchLoop(table, current_argument, argument_name_length, 1, 0, 0)
      o == table[m.match]
      eq == strchr(cur.s, "=")
      s0 == [s EXCEPT !.used = @ \cup {cur}, !.given = haslongindex,
                      !.match = IF m.num_matches = 1 THEN m.match ELSE 0]
      s1 == Resolved(s0, o, m.match, haslongindex)
      \* optarg = strchr(argv[optind], '='); if (optarg != NULL) ++optarg;
      s2 == [s1 EXCEPT !.optarg = IF eq >= 0 THEN [p |-> cur, off |-> eq + 1] ELSE NullCur]
      s3 ==
        IF m.num_matches = 1
        THEN IF o.has_arg # "no_argument"
             THEN IF o.has_arg = "required_argument"
                  THEN IF s2.optarg.p = NULL
                       THEN IF s2.optind + 1 < argc
                            THEN [s2 EXCEPT !.optind = @ + 1,
                                            !.optarg = [p |-> s2.argv[s2.optind + 1], off |-> 0],
                                            !.used = @ \cup {s2.argv[s2.optind + 1]}]
                            ELSE [s2 EXCEPT !.optind = @ + 1, !.err = "missing_long", !.ret = ":"]
                       ELSE s2
                  ELSE s2
             ELSE IF eq >= 0
                  THEN MalformedUsage(s1)
                  ELSE s1
        ELSE IF m.num_matches = 0
             THEN [s0 EXCEPT !.ret = "?", !.err = "unrecognized",
                             !.diag = IF s0.opterr # 0
                                      THEN Append(@, <<"unrecognized option", cur.s>>)
                                      ELSE @]
             ELSE [s0 EXCEPT !.ret = "?", !.err = "ambiguous",
                             !.diag = IF s0.opterr # 0
                                      THEN Append(@, <<"option is ambiguous", cur.s>>)
                                      ELSE @]
  IN [s3 EXCEPT !.optind = @ + 1]

getopt_long_len2(s, optstring, table, haslongindex, past) ==
  LET argc == Argc(s.argv)
      s1 == Prologue(s)
      pm == Permute(s1, TRUE)
      cur == pm.s.argv[pm.s.optind]
  IN IF s1.optind >= argc THEN [s1 EXCEPT !.ret = EOF, !.term = "end"]
     ELSE IF s1.argv[s1.optind] = NULL THEN GotoNoMore(s1, "null", TRUE)
     ELSE IF pm.go
          THEN IF Len(cur.s) < 2 \/ ~strncmp0(cur.s, <<"-", "-">>, 2)
               THEN getopt(pm.s, optstring, past)
               ELSE LongOption(pm.s, table, haslongindex)
          ELSE pm.s

\* lines 192-236 and the dispatch to getopt or to the long-option code
getopt_long(s, optstring, table, haslongindex, past) ==
  LET argc == Argc(s.argv)
      s1 == Prologue(s)
      pm == Permute(s1, TRUE)
      cur == pm.s.argv[pm.s.optind]
  IN IF s1.optind >= argc THEN [s1 EXCEPT !.ret = EOF, !.term = "end"]
     ELSE IF s1.argv[s1.optind] = NULL THEN GotoNoMore(s1, "null", TRUE)
     ELSE IF pm.go
          THEN IF Len(cur.s) < 3 \/ ~strncmp0(cur.s, <<"-", "-">>, 2)
               THEN getopt(pm.s, optstring, past)
               ELSE LongOption(pm.s, table, haslongindex)
          ELSE pm.s

\* ------------------------------------------------------------------------
\* State
\* ------------------------------------------------------------------------
VARIABLES
  argv,       \* the caller's argument vector
  optind, optarg, optopt, opterr,   \* the exported globals
  optcursor,  \* static: position in the option cluster being scanned
  first,      \* static: the first non-option moved by the current pass
  ret,        \* what the latest call returned
  hung,       \* the latest call never returns
  diag,       \* what the latest call wrote to stderr
  err,        \* the error branch the latest call took
  term,       \* the branch on which the latest call reported "no more options"
  used,       \* elements taken as options or option values in this pass
  longindex,  \* the caller's *longindex
  flagvar,    \* the caller's *flag
  match,      \* position in the table of the descriptor the latest call
              \* resolved a long option to, 0 if it resolved none
  given,      \* the latest call processed a long option and was given a
              \* longindex that is not NULL
  optstring,  \* the short-option specification the caller passes
  argv0,      \* the argument vector as it was when the pass started
  fresh,      \* the pass started with no cursor and no anchor
  phase,      \* where the caller is in the pass: "start" before its first
              \* call, "running", "ended" once a call has reported "no more
              \* options", "after" once it has called again after that
  passes      \* passes started so far

vars == <<argv, optind, optarg, optopt, opterr, optcursor, first, ret, hung,
          diag, err, term, used, longindex, flagvar, match, given, optstring,
          argv0, fresh, phase, passes>>

\* the record the operations work on
State ==
  [argv |-> argv, optind |-> optind, optarg |-> optarg, optopt |-> optopt,
   opterr |-> opterr, optcursor |-> optcursor, first |-> first, ret |-> ret,
   hung |-> hung, diag |-> diag, err |-> err, term |-> term, used |-> used,
   longindex |-> longindex, flagvar |-> flagvar, match |-> match,
   given |-> given]

\* the call's effect on the program; the caller's inputs stay
Becomes(r) ==
  /\ argv' = r.argv
  /\ optind' = r.optind
  /\ optarg' = r.optarg
  /\ optopt' = r.optopt
  /\ opterr' = r.opterr
  /\ optcursor' = r.optcursor
  /\ first' = r.first
  /\ ret' = r.ret
  /\ hung' = r.hung
  /\ diag' = r.diag
  /\ err' = r.err
  /\ term' = r.term
  /\ used' = r.used
  /\ longindex' = r.longindex
  /\ flagvar' = r.flagvar
  /\ match' = r.match
  /\ given' = r.given
  /\ phase' = IF phase \in {"ended", "after"} THEN "after"
               ELSE IF r.ret = EOF THEN "ended"
               ELSE "running"
  /\ UNCHANGED <<optstring, argv0, fresh, passes>>

\* ------------------------------------------------------------------------
\* Inputs
\* ------------------------------------------------------------------------
ProgName == <<"p">>

\* argument texts of the runs on short options: an operand, options with
\* and without a value, a cluster, "-", "--" and one long option that takes
\* a value
ShortToks ==
  { <<"a">>, <<"-", "x">>, <<"-", "o">>, <<"-", "x", "o", "v">>,
    <<"-">>, <<"-", "-">>, <<"-", "-", "o", "u", "t">> }

\* argument texts of the long-option runs: an operand, a short option, an
\* exact name that is also a prefix of other names, a unique prefix, "=value"
\* after a no-argument name without and with a flag, a required value in the
\* next element and after "=", an optional value, an unknown name and an
\* ambiguous prefix
LongToks ==
  { <<"a">>, <<"-", "x">>,
    <<"-", "-", "h", "e">>, <<"-", "-", "h", "e", "l">>,
    <<"-", "-", "h", "e", "=", "v">>, <<"-", "-", "h", "e", "x", "=", "v">>,
    <<"-", "-", "o", "u", "t">>, <<"-", "-", "o", "u", "=", "v">>,
    <<"-", "-", "o", "p", "t">>, <<"-", "-", "z">>, <<"-", "-", "o">> }

\* argument texts of the runs on longer vectors: an operand and an option
\* that takes a value
DeepToks == { <<"a">>, <<"-", "o">> }

\* argument texts of the runs on clusters: an operand and clusters of two
\* and three option characters that take no value, 'y' and 'z' in no
\* specification
ClusterToks ==
  { <<"a">>, <<"-", "z", "x">>, <<"-", "x", "y", "x">> }

\* argument texts of the vectors handed in for a later pass
NewToks == { <<"a">>, <<"-", "x">>, <<"-", "-">> }

\* short-option specifications
OptStrings ==
  { <<"x", "o", ":">>, <<":", "o", ":">>, <<"x", "o", ":", ":">> }

\* the argument vectors of at most n elements over the texts toks, stored
\* at the addresses of pass k
ArgVectors(toks, n, k) ==
  { [i \in 0..Len(t) |->
       [id |-> (k - 1) * (MaxArgc + MaxArgc2 + 1) + i + 1,
        s |-> IF i = 0 THEN ProgName ELSE t[i]]] :
    t \in UNION { [1..m -> toks] : m \in 0..(n - 1) } }

\* ------------------------------------------------------------------------
\* Initial states: the file-scope initialisers (lines 35-42)
\* ------------------------------------------------------------------------
InitWith(toks, n) ==
  /\ argv \in ArgVectors(toks, n, 1)
  /\ argv0 = argv
  /\ optstring \in OptStrings
  /\ optarg = NullCur
  /\ optopt = NUL
  /\ optind = 1
  /\ opterr = 1
  /\ optcursor = NullCur
  /\ first = NULL
  /\ ret = NORET
  /\ hung = FALSE
  /\ diag = <<>>
  /\ err = "none"
  /\ term = "none"
  /\ used = {}
  /\ longindex = -1
  /\ flagvar = NUL
  /\ match = 0
  /\ given = FALSE
  /\ fresh = TRUE
  /\ phase = "start"
  /\ passes = 1

Init == InitWith(ShortToks, MaxArgc)

\* the long-option runs: shorter vectors over more texts, one short-option
\* specification
InitLong == InitWith(LongToks, MaxArgc - 1) /\ optstring = <<"x", "o", ":">>

InitCluster == InitWith(ClusterToks, MaxArgc)

\* longer vectors over fewer texts
InitDeep == InitWith(DeepToks, MaxArgc + 1)

\* ------------------------------------------------------------------------
\* Actions
\* ------------------------------------------------------------------------
\* what a read of argv[argc] may yield: NULL for a vector terminated as
\* main's is, anything (the anchor included) otherwise
PastVals == {NULL, first}

GetoptCall ==
  /\ ~hung
  /\ \E past \in PastVals : Becomes(getopt(State, optstring, past))

GetoptLongCall ==
  /\ ~hung
  /\ \E past \in PastVals, haslongindex \in BOOLEAN :
       Becomes(getopt_long(State, optstring, longopts, haslongindex, past))

\* the caller switches error reporting on or off between calls
SetOpterr ==
  /\ ~hung
  /\ opterr' = 1 - opterr
  /\ UNCHANGED <<argv, optind, optarg, optopt, optcursor, first, ret, hung,
                 diag, err, term, used, longindex, flagvar, match, given,
                 optstring, argv0,
                 fresh, phase, passes>>

\* the pass has reported "no more options" and the caller starts a new one
\* over the same vector by setting optind to 1 or less
Reset ==
  /\ ~hung
  /\ ret = EOF
  /\ passes < MaxPasses
  /\ optind' = 0
  /\ argv0' = argv
  /\ fresh' = (first = NULL /\ NoCursor(optcursor))
  /\ used' = {}
  /\ phase' = "start"
  /\ passes' = passes + 1
  /\ UNCHANGED <<argv, optarg, optopt, opterr, optcursor, first, ret, hung,
                 diag, err, term, longindex, flagvar, match, given,
                 optstring>>

\* the pass has reported "no more options" and the caller starts a new one
\* over another vector, with the option string it used before
NewArgs ==
  /\ ~hung
  /\ ret = EOF
  /\ passes < MaxPasses
  /\ argv' \in ArgVectors(NewToks, MaxArgc2, passes + 1)
  /\ optind' = 1
  /\ argv0' = argv'
  /\ fresh' = (first = NULL /\ NoCursor(optcursor))
  /\ used' = {}
  /\ phase' = "start"
  /\ passes' = passes + 1
  /\ UNCHANGED <<optarg, optopt, opterr, optcursor, first, ret, hung,
                 diag, err, term, longindex, flagvar, match, given,
                 optstring>>

Next == GetoptCall \/ GetoptLongCall \/ SetOpterr \/ Reset \/ NewArgs

Spec == Init /\ [][Next]_vars

\* a caller that makes one pass and leaves opterr alone
NextLong == GetoptCall \/ GetoptLongCall

SpecLong == InitLong /\ [][NextLong]_vars

SpecDeep == InitDeep /\ [][Next]_vars

SpecCluster == InitCluster /\ [][Next]_vars

\* ------------------------------------------------------------------------
\* A whole pass, call by call
\* ------------------------------------------------------------------------
RECURSIVE TotalLen(_, _)
TotalLen(a, i) == IF i \notin DOMAIN a THEN 0 ELSE Len(a[i].s) + TotalLen(a, i + 1)

\* what the caller sees of a call
Outcome(r) ==
  [ret |-> r.ret, hung |-> r.hung, optarg |-> r.optarg, optopt |-> r.optopt,
   optind |-> r.optind, argv |-> r.argv]

\* the outcomes of the calls of a pass from state s, up to the first call
\* that reports "no more options" or does not return; every other call uses
\* up a character of argv, which bounds the number of calls
RECURSIVE PassTrace(_, _, _, _)
PassTrace(s, os, long, fuel) ==
  LET r == IF long THEN getopt_long(s, os, longopts, TRUE, NULL)
           ELSE getopt(s, os, NULL)
  IN IF r.hung \/ r.ret = EOF \/ fuel <= 0 THEN <<Outcome(r)>>
     ELSE <<Outcome(r)>> \o PassTrace(r, os, long, fuel - 1)

\* s with the statics as the initialisers leave them
FreshOf(s) == [s EXCEPT !.first = NULL, !.optcursor = NullCur]

\* ------------------------------------------------------------------------
\* Properties
\* ------------------------------------------------------------------------
\* a step that is a call of one of the two operations
Call == GetoptCall \/ GetoptLongCall

\* the scan index as the call sees it (lines 70-71)
Index == IF optind <= 1 THEN 1 ELSE optind

\* position of an element in the vector as the pass received it
Pos0(p) == CHOOSE i \in DOMAIN argv0 : argv0[i] = p

\* argv[lo..hi] are in the order they had when the pass started
InOrder(lo, hi) == \A i, j \in lo..hi : i < j => Pos0(argv[i]) < Pos0(argv[j])

\* C1: stable partition.  When a pass started from a fresh state has just
\* reported "no more options", the elements before optind are exactly the
\* ones taken as options or option values, the rest are the operands, and
\* both groups are in their original relative order.
C1_StablePartition ==
  (fresh /\ phase = "ended") =>
     LET k == Min(optind, Argc(argv))
     IN /\ {argv[i] : i \in 1..(k - 1)} = used
        /\ InOrder(1, k - 1)
        /\ InOrder(k, Argc(argv) - 1)

\* C2: termination.  Every call of a pass started from a fresh state
\* returns: no rotation loop runs for ever.
C2_EveryCallReturns ==
  (fresh /\ phase \in {"start", "running", "ended"}) => ~hung

\* C3: permutation.  After any calls argv holds exactly the elements the
\* pass was given, the same number of them, with argv[0] in place.
C3_Permutation ==
  /\ DOMAIN argv = DOMAIN argv0
  /\ {argv[i] : i \in DOMAIN argv} = {argv0[i] : i \in DOMAIN argv0}
  /\ argv[0] = argv0[0]

\* C3 witness: calls have returned and have reordered argv
C3_Reordered ==
  /\ ret \notin {NORET, EOF}
  /\ argv # argv0
  /\ phase = "running"

\* C4 as claimed: once a call has reported "no more options", for whatever
\* reason, a later call reports it again and leaves optind and argv alone.
C4_Idempotent ==
  [][(phase \in {"ended", "after"} /\ ret = EOF /\ Call)
       => (ret' = EOF /\ optind' = optind /\ argv' = argv)]_vars

\* C4 amended: the same, when the report was made for a reason other than
\* the "--" terminator.
C4_IdempotentButDashDash ==
  [][(phase \in {"ended", "after"} /\ ret = EOF /\ term # "dashdash" /\ Call)
       => (ret' = EOF /\ term' # "dashdash" /\ optind' = optind /\ argv' = argv)]_vars

\* C4 witness: a call made after a completed rotation cycle had ended the
\* pass, with operands and options in argv
C4_CalledAgain ==
  /\ phase = "after"
  /\ ret = EOF
  /\ term = "cycle"
  /\ optind > 1

\* C5: whenever a call reports "no more options", the cursor and the anchor
\* are both unset on return.
C5_Cleared == (ret = EOF) => (first = NULL /\ NoCursor(optcursor))

\* C6: pass independence.  A pass started after a finished one gives, call
\* by call, the outcomes, values, element order and index of the same pass
\* run from freshly initialised statics, with getopt and with getopt_long.
C6_PassIndependent ==
  (passes > 1 /\ phase = "start") =>
     \A long \in BOOLEAN :
        PassTrace(State, optstring, long, TotalLen(argv, 0))
          = PassTrace(FreshOf(State), optstring, long, TotalLen(argv, 0))

\* the position in its element of the option character a call looks at
LetterAt == IF NoCursor(optcursor) THEN 1 ELSE optcursor.off

\* the element starts with "--" and is longer: getopt_long takes it as a
\* long option
LongForm(e) == Len(e.s) >= 3 /\ e.s[1] = "-" /\ e.s[2] = "-"

\* a call that returns an outcome of the short-option scanner for a
\* character of the element at the scan index; a cursor left inside another
\* element (by a getopt_long call that took as a long option the element
\* getopt was scanning as a cluster) is not this case
ShortScan ==
  /\ ~hung'
  /\ ret' # EOF
  /\ Index \in DOMAIN argv'
  /\ NoCursor(optcursor) \/ optcursor.p = argv'[Index]
  /\ GetoptCall \/ (GetoptLongCall /\ ~LongForm(argv'[Index]))

\* the option character such a call looks at
Letter ==
  IF Index \in DOMAIN argv' THEN CharAt(argv'[Index], LetterAt) ELSE NUL

\* c is declared in the specification os with exactly one ':' after it
Required(os, c) ==
  \E k \in 1..Len(os) : os[k] = c /\ OptCh(os, k) = ":" /\ OptCh(os, k + 1) # ":"

\* no element after the program name starts with '-'
NoDash(a) == \A i \in DOMAIN a : i >= 1 => CharAt(a[i], 0) # "-"

\* C7: when no element after the program name starts with '-', the first
\* call of a fresh pass reports "no more options", leaves argv in its
\* original order and the scan index at 1.
C7_OperandsOnly ==
  [][(phase = "start" /\ fresh /\ NoDash(argv) /\ Call)
       => (ret' = EOF /\ ~hung' /\ argv' = argv /\ optind' = 1)]_vars

\* C7 witness: a fresh pass over three or more elements without '-' has
\* gone through a whole rotation cycle
C7_CycleDone ==
  /\ fresh
  /\ phase = "ended"
  /\ term = "cycle"
  /\ NoDash(argv0)
  /\ Argc(argv) >= 3
  /\ argv = argv0

\* C8: a short option declared with one ':'.  With characters left after
\* the letter in its element, the call returns the letter, the value is
\* exactly those characters and the index advances by one; with none left
\* and a next element, the value is the next element and the index advances
\* by two.  The cursor is cleared in both cases.
C8_RequiredValue ==
  [][(Required(optstring, Letter) /\ ShortScan)
       => LET e == argv'[Index]
              k == LetterAt
          IN IF k + 1 < Len(e.s)
             THEN /\ ret' = CharAt(e, k)
                  /\ optarg' = [p |-> e, off |-> k + 1]
                  /\ optind' = Index + 1
                  /\ optcursor' = NullCur
             ELSE (Index + 1 < Argc(argv))
                    => /\ ret' = CharAt(e, k)
                       /\ optarg' = [p |-> argv'[Index + 1], off |-> 0]
                       /\ optind' = Index + 2
                       /\ optcursor' = NullCur]_vars

\* C8 witness: 'o' was returned from the middle of a cluster with the rest
\* of the element as its value
C8_ValueInElement ==
  /\ ret = "o"
  /\ optind - 1 \in DOMAIN argv
  /\ optarg.p = argv[optind - 1]
  /\ optarg.off = 3
  /\ StrAt(optarg) = <<"v">>
  /\ optcursor = NullCur

\* C9: a short option declared with one ':' is the last character of the
\* last element.  The call returns ':' when the specification starts with
\* ':' and '?' otherwise, optarg is unset, optopt holds the letter, and the
\* next call reports "no more options".
C9_MissingValue ==
  [][/\ (/\ Required(optstring, Letter)
         /\ ShortScan
         /\ LetterAt + 1 = Len(argv'[Index].s)
         /\ Index + 1 = Argc(argv))
        => /\ ret' = (IF OptCh(optstring, 0) = ":" THEN ":" ELSE "?")
           /\ optarg' = NullCur
           /\ optopt' = CharAt(argv'[Index], LetterAt)
           /\ err' = "missing"
     /\ (err = "missing" /\ phase = "running" /\ Call) => ret' = EOF]_vars

\* C9 witness: the call after a missing value, reported as ':', has said
\* "no more options"
C9_AfterMissing ==
  /\ phase = "ended"
  /\ term = "end"
  /\ optind = Argc(argv) + 1
  /\ OptCh(optstring, 0) = ":"
  /\ argv[Argc(argv) - 1].s = <<"-", "o">>

\* C10: a call made with opterr set that meets an unrecognized option
\* character, a missing value, an unrecognized or an ambiguous long option
\* writes exactly one diagnostic; with opterr clear it writes none.
C10_Diagnostics ==
  [][(Call /\ err' \in {"invalid", "missing", "unrecognized", "ambiguous"})
       => Len(diag') = (IF opterr # 0 THEN 1 ELSE 0)]_vars

\* a call of getopt_long that processes the element at the scan index as a
\* long option (line 238 onwards)
LongStep ==
  /\ ~hung'
  /\ Index \in DOMAIN argv'
  /\ LongForm(argv'[Index])
  /\ GetoptLongCall

\* the candidate name of a long-option element: what stands between "--"
\* and the first '=' (lines 239-240)
CandName(e) ==
  LET current_argument == SubSeq(e.s, 3, Len(e.s))
  IN SubSeq(current_argument, 1, strcspn(current_argument))

\* C11: exact-match priority.  When a descriptor's name equals the candidate
\* name of the long-option element, the call resolves to that descriptor,
\* whatever its position and however many other names start with the
\* candidate; the outcome is neither "ambiguous" nor "unrecognized".
C11_ExactFirst ==
  [][LongStep =>
       \A i \in DOMAIN longopts :
          longopts[i].name = CandName(argv'[Index])
            => /\ match' = i
               /\ err' \notin {"ambiguous", "unrecognized"}
               /\ given' => longindex' = i - 1]_vars

\* C11 witness: "--he" was resolved to the descriptor "he", the last of the
\* table, which follows "help" and "hex"
C11_ExactAfterPrefixes ==
  /\ optind - 1 \in DOMAIN argv
  /\ argv[optind - 1].s = <<"-", "-", "h", "e">>
  /\ match = 5
  /\ longopts[match].name = <<"h", "e">>
  /\ ret = "e"
  /\ given /\ longindex = 4

\* c is an initial part of name
IsPrefix(c, name) == Len(c) <= Len(name) /\ SubSeq(name, 1, Len(c)) = c

\* the descriptors whose name starts with the candidate name of e
PrefixMatches(e) ==
  {i \in DOMAIN longopts : IsPrefix(CandName(e), longopts[i].name)}

\* no descriptor's name is the candidate name of e
NoExact(e) == \A i \in DOMAIN longopts : longopts[i].name # CandName(e)

\* C12: prefix fallback.  With no exact match the call resolves to a
\* descriptor exactly when one name only starts with the candidate, and
\* then to that one; with two or more it returns '?' as ambiguous, with
\* none '?' as unrecognized, and in both cases the flag and the longindex
\* slot keep their values.
C12_PrefixFallback ==
  [][(LongStep /\ NoExact(argv'[Index]))
       => LET P == PrefixMatches(argv'[Index])
          IN /\ (match' # 0) <=> (Cardinality(P) = 1)
             /\ (match' # 0) => match' \in P
             /\ (Cardinality(P) >= 2) => (ret' = "?" /\ err' = "ambiguous")
             /\ (Cardinality(P) = 0) => (ret' = "?" /\ err' = "unrecognized")
             /\ (Cardinality(P) # 1)
                  => (flagvar' = flagvar /\ longindex' = longindex)]_vars

\* C12 witness: "--o", which starts "out" and "opt", was reported as
\* ambiguous after an earlier call had written the flag and the slot,
\* and both still hold what that call wrote
C12_AmbiguousKeepsOutputs ==
  /\ optind - 1 \in DOMAIN argv
  /\ argv[optind - 1].s = <<"-", "-", "o">>
  /\ err = "ambiguous"
  /\ ret = "?"
  /\ flagvar = "p"
  /\ longindex = 3

\* the value the call returned in optarg is the whole element after the one
\* at the scan index
ValueFromNext ==
  /\ Index + 1 \in DOMAIN argv'
  /\ optarg' = [p |-> argv'[Index + 1], off |-> 0]

\* C13: a call of getopt_long that processes a long-option element leaves
\* the scan index one past that element, or two past it when, and only
\* when, it took the option's value from the next element.
C13_LongAdvance ==
  [][LongStep
       => optind' = Index + (IF ValueFromNext THEN 2 ELSE 1)]_vars

\* C14: malformed usage.  When "--name=value" resolves to a descriptor that
\* takes no argument, the call returns '?', with or without a flag in the
\* descriptor, optarg is unset and the scan index advances by one.
C14_Malformed ==
  [][(/\ LongStep
      /\ strchr(argv'[Index].s, "=") >= 0
      /\ match' # 0
      /\ longopts[match'].has_arg = "no_argument")
       => /\ ret' = "?"
          /\ optarg' = NullCur
          /\ optind' = Index + 1]_vars

\* C14 witness: "--hex=v" was resolved to "hex", which takes no argument
\* and has a flag, and the call returned '?' and not 0
C14_MalformedWithFlag ==
  /\ optind - 1 \in DOMAIN argv
  /\ argv[optind - 1].s = <<"-", "-", "h", "e", "x", "=", "v">>
  /\ match = 2
  /\ longopts[match].flag
  /\ err = "malformed"
  /\ ret = "?"
  /\ optarg = NullCur

\* c is declared in the specification os with a ':' after it (line 135)
TakesValue(os, c) == strchr(os, c) >= 0 /\ OptCh(os, strchr(os, c) + 1) = ":"

\* e is '-' followed by one or more characters, none of them declared with
\* a value in os, and is not "--"
PlainCluster(e, os) ==
  /\ Len(e.s) >= 2
  /\ e.s[1] = "-"
  /\ e.s # <<"-", "-">>
  /\ \A j \in 2..Len(e.s) : ~TakesValue(os, e.s[j])

\* a call that finds such a cluster at the scan index, with the cursor unset
\* or inside it
ClusterStep ==
  /\ ~hung'
  /\ Index \in DOMAIN argv'
  /\ PlainCluster(argv'[Index], optstring)
  /\ NoCursor(optcursor) \/ optcursor.p = argv'[Index]
  /\ GetoptCall \/ (GetoptLongCall /\ ~LongForm(argv'[Index]))

\* C15: cluster scanning.  Each call on a cluster of characters that take
\* no value returns the outcome of the next character from the left, the
\* character if it is in the specification and '?' if not; the scan index
\* stays on the element, with the cursor on the following character, until
\* the call for the last character, which advances the index by one.  A '?'
\* neither ends the pass nor skips a character.
C15_Cluster ==
  [][ClusterStep
       => LET e == argv'[Index]
              j == LetterAt
              c == CharAt(e, j)
          IN /\ ret' = (IF strchr(optstring, c) >= 0 THEN c ELSE "?")
             /\ optopt' = c
             /\ IF j + 1 < Len(e.s)
                THEN optind' = Index /\ optcursor' = [p |-> e, off |-> j + 1]
                ELSE optind' = Index + 1 /\ NoCursor(optcursor')]_vars

\* C15 witness: with 'z' not in the specification, the call after the one
\* that returned '?' for the 'z' of "-zx" has returned 'x' and moved the
\* index past the element
C15_AfterUnrecognized ==
  /\ optind - 1 \in DOMAIN argv
  /\ argv[optind - 1].s = <<"-", "z", "x">>
  /\ optstring = <<"x", "o", ":">>
  /\ ret = "x"
  /\ optopt = "x"
  /\ phase = "running"

\* a call that, after any permutation of its own, finds "--" at the scan
\* index (line 106)
DashDashStep ==
  /\ Index \in DOMAIN argv'
  /\ argv'[Index].s = <<"-", "-">>
  /\ Call

\* the anchor such a call works with: the one recorded by an earlier call,
\* or the operand it found at the scan index and moved itself (lines 88-89);
\* NULL if there is none
Anchor ==
  IF first # NULL THEN first
  ELSE IF Index \in DOMAIN argv /\ CharAt(argv[Index], 0) # "-" THEN argv[Index]
  ELSE NULL

\* C16: explicit terminator.  A call that finds "--" at the scan position
\* reports "no more options" and leaves the scan index one past the "--";
\* with an anchor recorded, the anchor is then at the scan index and the
\* elements from there on are in their original relative order: the
\* displaced operands first, then what followed "--".
C16_Terminator ==
  [][DashDashStep
       => /\ ~hung'
          /\ ret' = EOF
          /\ optind' = Index + 1
          /\ (Anchor # NULL)
               => /\ optind' \in DOMAIN argv'
                  /\ argv'[optind'] = Anchor
                  /\ \A i, j \in optind'..(Argc(argv') - 1) :
                        i < j => Pos0(argv'[i]) < Pos0(argv'[j])]_vars

\* the step does not lower the scan index and leaves every element before
\* it, the program name included, where it was
KeepsPrefix ==
  /\ optind' >= optind
  /\ DOMAIN argv' = DOMAIN argv
  /\ \A k \in DOMAIN argv : k < optind => argv'[k] = argv[k]

\* C17: monotone index, frozen prefix.  A call made with the scan index at
\* 1 or more never lowers it and leaves every element before it where it
\* was: a step that does otherwise is not a call.
C17_MonotoneFrozen ==
  [][(optind >= 1 /\ ~KeepsPrefix) => ~Call]_vars

\* C17 witness: a call made with the scan index at 2 has moved the operand
\* it found there behind the option after it and returned that option; the
\* option scanned before is still at position 1
C17_RotatedBehindPrefix ==
  /\ passes = 1
  /\ 3 \in DOMAIN argv
  /\ optind = 3
  /\ ret \notin {EOF, NORET}
  /\ argv[1] = argv0[1]
  /\ argv[2] = argv0[3]
  /\ argv[3] = argv0[2]

\* what the call writes to the slot and the flag when it resolves the long
\* option to the descriptor at position i, and that it writes nothing when
\* it resolves to none
LongWrites(i) ==
  IF i # 0
  THEN /\ longindex' = (IF given' THEN i - 1 ELSE longindex)
       /\ flagvar' = (IF longopts[i].flag THEN longopts[i].val ELSE flagvar)
  ELSE /\ longindex' = longindex
       /\ flagvar' = flagvar

\* the value line 276 computes for the descriptor at position i
FlagOrVal(i) == IF longopts[i].flag THEN NUL ELSE longopts[i].val

\* C18 as claimed: a call that resolves a long option to one descriptor
\* writes its position to the slot, if given, and either writes the value
\* to the flag and returns 0 or returns the value; a call that resolves to
\* none leaves the flag and the slot alone.
C18_Outputs ==
  [][LongStep
       => /\ LongWrites(match')
          /\ (match' # 0) => ret' = FlagOrVal(match')]_vars

\* the element at the scan index has "=value" although the descriptor at i
\* takes no argument (lines 293-299)
HasUnwantedValue(i) ==
  longopts[i].has_arg = "no_argument" /\ strchr(argv'[Index].s, "=") >= 0

\* the descriptor at i requires a value and there is none, neither after
\* '=' nor in a next element (lines 283-291)
LacksValue(i) ==
  /\ longopts[i].has_arg = "required_argument"
  /\ strchr(argv'[Index].s, "=") < 0
  /\ Index + 1 \notin DOMAIN argv'

\* C18 amended: the same, except that the return value is '?' when a value
\* was given to a descriptor that takes none and ':' when a required value
\* is missing; the slot and the flag are written in those cases too.
C18_OutputsUnlessError ==
  [][LongStep
       => /\ LongWrites(match')
          /\ (match' # 0)
               => ret' = (IF HasUnwantedValue(match') THEN "?"
                          ELSE IF LacksValue(match') THEN ":"
                          ELSE FlagOrVal(match'))]_vars

\* C18 witness: "--opt" was resolved to the descriptor at position 4, which
\* has a flag: the slot holds 3, the flag holds 'p' and the call returned 0
C18_FlagWritten ==
  /\ optind - 1 \in DOMAIN argv
  /\ argv[optind - 1].s = <<"-", "-", "o", "p", "t">>
  /\ match = 4
  /\ given
  /\ longindex = 3
  /\ flagvar = "p"
  /\ ret = NUL

\* no element is a long option for getopt_long
NoLongForm(a) == \A i \in DOMAIN a : ~LongForm(a[i])

\* the step gives the caller what a call of getopt gives in the state it
\* starts from, and, unless the end is reported, leaves the cursor and the
\* anchor as that call does
AsGetopt ==
  \E past \in PastVals :
     LET r == getopt(State, optstring, past)
     IN /\ hung' = r.hung
        /\ ret' = r.ret
        /\ optarg' = r.optarg
        /\ optopt' = r.optopt
        /\ optind' = r.optind
        /\ argv' = r.argv
        /\ (r.ret # EOF) => (optcursor' = r.optcursor /\ first' = r.first)

\* C19: dispatch equivalence.  Over a sequence without a "--name" element,
\* every call of getopt_long in a pass from a fresh state gives the return
\* value, optarg, optopt, optind and element order that a call of getopt
\* gives in its place, and, until the end is reported, leaves the cursor
\* and the anchor as getopt does, so that the two passes agree call by call:
\* a step that does otherwise is not a call of getopt_long.
C19_DispatchEquivalence ==
  [][(/\ fresh
      /\ phase \in {"start", "running"}
      /\ NoLongForm(argv)
      /\ ~AsGetopt)
       => ~GetoptLongCall]_vars

\* C19 witness: getopt_long has ended a fresh pass over a sequence without
\* "--name" by its own early return, which, unlike getopt, leaves the
\* anchor set; the elements were reordered on the way
C19_LongOverShort ==
  /\ fresh
  /\ phase = "ended"
  /\ NoLongForm(argv)
  /\ ret = EOF
  /\ term = "end"
  /\ first # NULL
  /\ argv # argv0

\* a call that has returned an option with, as its value, the whole element
\* after the option's (lines 151-152 and 286-288)
TookNext ==
  /\ ~hung'
  /\ Index + 1 \in DOMAIN argv'
  /\ optind' = Index + 2
  /\ optarg' = [p |-> argv'[Index + 1], off |-> 0]
  /\ Call

\* C20: value provenance.  The element a call takes as the value of a short
\* or long option is the one that followed the option's element in the
\* sequence as the pass received it: never an operand that stood before the
\* option, and none at all for an option that was the last element.
C20_ValueProvenance ==
  [][TookNext => Pos0(argv'[Index + 1]) = Pos0(argv'[Index]) + 1]_vars

====
